---- MODULE Spec2Model ----
(***************************************************************************)
(* A model of myargs.h (djoezeke/myargs): the ArgumentParser, its three    *)
(* declaration operations, parse_args, the getters and free_parser.        *)
(*                                                                         *)
(* A C string is a sequence of one-character strings.  A char* held by the *)
(* parser is a record [id, str]: id is the heap allocation it points to    *)
(* (0 for NULL), str the characters.  heap[id] counts how many times       *)
(* allocation id has been passed to free().                                *)
(***************************************************************************)
EXTENDS Integers, Sequences, FiniteSets, TLC

VARIABLES parser, heap, wild, status, argv, stderr, stdout

vars == <<parser, heap, wild, status, argv, stderr, stdout>>

(* ------------------------------ bounds -------------------------------- *)

\* specs a parser holds (parser->count)
MaxArgs == 2
\* tokens after the program name (argc - 1)
MaxArgc == 2

(* --------------------------- C-level values --------------------------- *)

NULL == [id |-> 0, str |-> <<>>]
NUL == "\\0"
FLAG == "FLAG"
KWARG == "KWARG"
ARG == "ARG"

TrueStr == <<"t", "r", "u", "e">>
HelpName == <<"h", "e", "l", "p">>
HelpText ==
  <<"S", "h", "o", "w", "s", " ", "t", "h", "i", "s", " ", "h", "e", "l", "p",
    " ", "M", "e", "n", "u">>
MissingMsg == <<"Missing required argument: ">>

\* a string the caller passes in (a const char * that may be NULL)
NoStr == [has |-> FALSE, str |-> <<>>]
Str(s) == [has |-> TRUE, str |-> s]

(* ------------------------------- inputs ------------------------------- *)

Names == {<<"a", "b">>, <<"b">>}
\* the sym a caller passes: NUL for "no short symbol"
FlagSyms == {NUL, "b"}
KwargSyms == {NUL, "a", "b"}
ArgSyms == {NUL}
Defaults == {NoStr, Str(<<"d">>)}
Requireds == {0, 1}
NArgs == {1}
ArgHelp == Str(<<"t">>)
\* what an uninitialised Argument.count can hold when free_parser reads it
GarbageCounts == {1, 2}
\* what strdup(NULL) does: undefined behaviour, a fault on glibc, NULL on
\* C runtimes that test their argument
StrdupNullOutcomes == {"crash", "null"}

\* argv tokens: the name "ab" in long form and bare, the clusters "ab" and
\* "0", each with and without a value, and the two forms of the help flag
LongSuffixes == {<<>>, <<"=", "x">>, <<"=", "y">>}
Suffixes == {<<>>, <<"=", "x">>}
Tokens ==
  {<<"-", "-", "a", "b">> \o s : s \in LongSuffixes}
    \cup {p \o s : p \in {<<"a", "b">>, <<"-", "a", "b">>, <<"-", "0">>},
                   s \in Suffixes}
    \cup {<<"-", "h">>, <<"-", "-">> \o HelpName}

SeqsUpTo(S, n) == UNION {[1..k -> S] : k \in 0..n}

(* -------------------------------- heap -------------------------------- *)

\* strdup of a non-NULL string: a fresh allocation holding a copy
strdup(h, s) ==
  [ptr |-> [id |-> Len(h) + 1, str |-> s], heap |-> Append(h, 0)]

\* `x ? strdup(x) : NULL`
strdup_or_null(h, x) ==
  IF x.has THEN strdup(h, x.str) ELSE [ptr |-> NULL, heap |-> h]

\* free(p) for a pointer to an allocation; free(NULL) does nothing
free(h, p) ==
  IF p.id = 0 THEN h ELSE [h EXCEPT ![p.id] = @ + 1]

count == Len(parser.arguments)

(* ---------------------------- declarations ---------------------------- *)

\* the realloc of parser->arguments: allocates on the first call, keeps the
\* allocation afterwards
realloc_arguments(p, h) ==
  IF p.argsId = 0
    THEN [argsId |-> Len(h) + 1, heap |-> Append(h, 0)]
    ELSE [argsId |-> p.argsId, heap |-> h]

StoredSym(sym) == IF sym = NUL THEN "0" ELSE sym

\* the body shared by add_arg, add_kwarg and add_flag; cnt is the value
\* stored in Argument.count (0 stands for "never written")
add_argument(p, h, type, sym, name, required, cnt, default_value, help) ==
  LET r == realloc_arguments(p, h)
      n == strdup(r.heap, name)
      d == strdup_or_null(n.heap, default_value)
      t == strdup_or_null(d.heap, help)
      a == [name |-> n.ptr, sym |-> StoredSym(sym), required |-> required,
            help |-> t.ptr, type |-> type, count |-> cnt,
            def_val |-> d.ptr, value |-> NULL]
  IN  [parser |-> [p EXCEPT !.argsId = r.argsId,
                            !.arguments = Append(@, a)],
       heap |-> t.heap]

add_arg(p, h, sym, name, required, nargs, default_value, help) ==
  add_argument(p, h, ARG, sym, name, required, nargs, default_value, help)

add_kwarg(p, h, sym, name, required, default_value, help) ==
  add_argument(p, h, KWARG, sym, name, required, 0, default_value, help)

add_flag(p, h, sym, name, help) ==
  add_argument(p, h, FLAG, sym, name, 0, 0, NoStr, help)

new_parser(add_help) ==
  LET a == strdup(<<>>, <<"p">>)
      b == strdup(a.heap, <<"u">>)
      c == strdup(b.heap, <<"d">>)
      d == strdup(c.heap, <<"e">>)
      p == [program |-> a.ptr, usage |-> b.ptr, description |-> c.ptr,
            epilog |-> d.ptr, argsId |-> 0, arguments |-> <<>>]
  IN  IF add_help = 1
        THEN add_flag(p, d.heap, "h", HelpName, Str(HelpText))
        ELSE [parser |-> p, heap |-> d.heap]

(* ------------------------------ parse_args ---------------------------- *)

\* the index at which a `for (j = 0; j < count; j++) if (...) { ...; break; }`
\* loop acts: the smallest of the indices that pass its test, 0 for none
FirstIdx(hits) ==
  IF hits = {} THEN 0 ELSE CHOOSE k \in hits : \A m \in hits : k <= m

\* strchr(arg, '='): the index of the first '=', 0 for NULL
strchr_eq(arg) ==
  LET hits == {k \in 1..Len(arg) : arg[k] = "="}
  IN  IF hits = {} THEN 0 ELSE CHOOSE k \in hits : \A m \in hits : k <= m

\* `*value = '\0'; value++`: arg is cut at the first '=', value is the rest
\* (NULL when there is no '=')
split(arg) ==
  LET e == strchr_eq(arg)
  IN  IF e = 0
        THEN [arg |-> arg, value |-> NoStr]
        ELSE [arg |-> SubSeq(arg, 1, e - 1),
              value |-> Str(SubSeq(arg, e + 1, Len(arg)))]

\* assign_strdup that leaves a value already set alone (first write wins)
assign_strdup_keep_first(s, k, v, ub) ==
  IF s.arguments[k].value # NULL THEN s
  ELSE IF v.has
    THEN LET d == strdup(s.heap, v.str)
         IN  [s EXCEPT !.arguments[k].value = d.ptr, !.heap = d.heap]
    ELSE IF ub = "crash"
           THEN [s EXCEPT !.crashed = TRUE]
           ELSE [s EXCEPT !.arguments[k].value = NULL]

\* `arguments[k].value = strdup(v)`; the old value is not freed.  strdup(NULL)
\* is undefined behaviour: ub chooses between the fault and a NULL result
assign_strdup(s, k, v, ub) ==
  IF v.has
    THEN LET d == strdup(s.heap, v.str)
         IN  [s EXCEPT !.arguments[k].value = d.ptr, !.heap = d.heap]
    ELSE IF ub = "crash"
           THEN [s EXCEPT !.crashed = TRUE]
           ELSE [s EXCEPT !.arguments[k].value = NULL]

\* a first loop that passes over Positional specs, as the second loop does
assign_first_named_not_arg(s, arg, value, ub) ==
  LET j == FirstIdx({n \in 1..Len(s.arguments) :
                       /\ s.arguments[n].name.str = arg
                       /\ s.arguments[n].type # ARG})
  IN  IF j = 0 THEN s ELSE assign_strdup(s, j, value, ub)

\* the first loop over the specs of the long and the bare branch: the first
\* spec with that name, of any type, gets strdup(value)
assign_first_named(s, arg, value, ub) ==
  LET j == FirstIdx({n \in 1..Len(s.arguments) :
                       s.arguments[n].name.str = arg})
  IN  IF j = 0 THEN s ELSE assign_strdup(s, j, value, ub)

\* the second loop: the first spec with that name that is a FLAG or a KWARG
assign_flag_or_kwarg(s, k, value, ub) ==
  IF k = 0 THEN s
  ELSE IF s.arguments[k].type = FLAG
         THEN assign_strdup(s, k, Str(TrueStr), ub)
         ELSE assign_strdup(s, k, value, ub)

match_by_name(s, arg, value, ub) ==
  LET s1 == assign_first_named(s, arg, value, ub)
      k == FirstIdx({n \in 1..Len(s1.arguments) :
                       /\ s1.arguments[n].name.str = arg
                       /\ s1.arguments[n].type \in {FLAG, KWARG}})
  IN  IF s1.crashed THEN s1 ELSE assign_flag_or_kwarg(s1, k, value, ub)

\* one character of a short-form cluster: the first FLAG or KWARG spec whose
\* sym is that character
match_sym(s, ch, value, ub) ==
  LET k == FirstIdx({n \in 1..Len(s.arguments) :
                       /\ s.arguments[n].sym = ch
                       /\ s.arguments[n].type \in {FLAG, KWARG}})
  IN  assign_flag_or_kwarg(s, k, value, ub)

RECURSIVE match_cluster(_, _, _, _, _)
match_cluster(s, arg, j, value, ub) ==
  IF j > Len(arg) \/ s.crashed THEN s
  ELSE match_cluster(match_sym(s, arg[j], value, ub), arg, j + 1, value, ub)

IsLong(tok) == Len(tok) >= 2 /\ tok[1] = "-" /\ tok[2] = "-"
IsShort(tok) == ~IsLong(tok) /\ Len(tok) >= 1 /\ tok[1] = "-"

\* scan_token that tests the prefix "-" before "--", so that a long-form
\* token is read as a cluster
scan_token_dash_first(s, tok, ub) ==
  IF Len(tok) >= 1 /\ tok[1] = "-"
    THEN LET sp == split(SubSeq(tok, 2, Len(tok)))
         IN  match_cluster(s, sp.arg, 1, sp.value, ub)
  ELSE LET sp == split(tok)
       IN  match_by_name([s EXCEPT !.stdout = Append(@, sp.arg)],
                         sp.arg, sp.value, ub)

\* the body of the loop over argv
scan_token(s, tok, ub) ==
  IF IsLong(tok)
    THEN LET sp == split(SubSeq(tok, 3, Len(tok)))
         IN  match_by_name(s, sp.arg, sp.value, ub)
  ELSE IF IsShort(tok)
    THEN LET sp == split(SubSeq(tok, 2, Len(tok)))
         IN  match_cluster(s, sp.arg, 1, sp.value, ub)
  ELSE LET sp == split(tok)
       IN  match_by_name([s EXCEPT !.stdout = Append(@, sp.arg)],
                         sp.arg, sp.value, ub)

RECURSIVE scan(_, _, _, _)
scan(s, tokens, i, ub) ==
  IF i > Len(tokens) \/ s.crashed THEN s
  ELSE scan(scan_token(s, tokens[i], ub), tokens, i + 1, ub)

\* default_or_exit that substitutes the default before it tests required
default_before_exit(r, i) ==
  LET v == IF r.arguments[i].value = NULL THEN r.arguments[i].def_val
           ELSE r.arguments[i].value
  IN  IF r.arguments[i].required # 0 /\ v = NULL
        THEN [r EXCEPT !.status = "exited",
                       !.stderr = Append(@, MissingMsg \o r.arguments[i].name.str)]
        ELSE [r EXCEPT !.arguments[i].value = v]

\* the loop after the scan: the first required spec without a value ends the
\* process, every other spec without a value is given def_val (the pointer)
default_or_exit(r, i) ==
  IF r.arguments[i].required # 0 /\ r.arguments[i].value = NULL
    THEN [r EXCEPT !.status = "exited",
                   !.stderr = Append(@, MissingMsg \o r.arguments[i].name.str)]
  ELSE IF r.arguments[i].value = NULL
    THEN [r EXCEPT !.arguments[i].value = r.arguments[i].def_val]
  ELSE r

RECURSIVE post_scan(_, _)
post_scan(r, i) ==
  IF i > Len(r.arguments) \/ r.status = "exited" THEN r
  ELSE post_scan(default_or_exit(r, i), i + 1)

scan_args(args, h, tokens, ub) ==
  scan([arguments |-> args, heap |-> h, crashed |-> FALSE, stdout |-> <<>>],
       tokens, 1, ub)

parse_args(args, h, tokens, ub) ==
  LET s == scan_args(args, h, tokens, ub)
      r == [arguments |-> s.arguments, heap |-> s.heap, stdout |-> s.stdout,
            status |-> "parsed", stderr |-> <<>>]
  IN  IF s.crashed THEN [r EXCEPT !.status = "crashed"]
      ELSE post_scan(r, 1)

(* ------------------------------- getters ------------------------------ *)

get_arg(args, name) ==
  LET i == FirstIdx({n \in 1..Len(args) : args[n].name.str = name})
  IN  IF i = 0 THEN NULL
      ELSE IF args[i].type = ARG
             THEN IF args[i].value # NULL THEN args[i].value
                  ELSE args[i].def_val
             ELSE NULL

get_kwarg(args, name) ==
  LET i == FirstIdx({n \in 1..Len(args) : args[n].name.str = name})
  IN  IF i = 0 THEN NULL
      ELSE IF args[i].type = KWARG
             THEN IF args[i].value # NULL THEN args[i].value
                  ELSE args[i].def_val
             ELSE NULL

\* get_flag without the test of the spec's type
get_flag_any_type(args, name) ==
  LET i == FirstIdx({n \in 1..Len(args) : args[n].name.str = name})
  IN  IF i = 0 THEN 0
      ELSE IF args[i].value # NULL THEN 1 ELSE 0

get_flag(args, name) ==
  LET i == FirstIdx({n \in 1..Len(args) : args[n].name.str = name})
  IN  IF i = 0 THEN 0
      ELSE IF args[i].type = FLAG
             THEN IF args[i].value # NULL THEN 1 ELSE 0
             ELSE 0

(* ------------------------------ free_parser --------------------------- *)

\* the frees of one spec; c is what Argument.count reads as.  With c # 1 the
\* bytes of the string are read as an array of c pointers and each is freed
\* (a free of something that is no allocation), then the string itself
free_argument(f, a, c) ==
  LET h1 == free(free(free(f.heap, a.name), a.help), a.def_val)
  IN  IF a.type \in {ARG, KWARG} /\ a.value # NULL
        THEN IF c = 1
               THEN [heap |-> free(h1, a.value), wild |-> f.wild]
               ELSE [heap |-> free(h1, a.value),
                     wild |-> f.wild + (IF c > 0 THEN c ELSE 0)]
        ELSE [heap |-> h1, wild |-> f.wild]

\* Argument.count as free_parser reads it: written by add_arg only
read_count(a, garbage) == IF a.type = ARG THEN a.count ELSE garbage

RECURSIVE free_arguments(_, _, _, _)
free_arguments(f, args, i, g) ==
  IF i > Len(args) THEN f
  ELSE free_arguments(free_argument(f, args[i], read_count(args[i], g[i])),
                      args, i + 1, g)

free_parser(p, h, w, g) ==
  LET f == free_arguments([heap |-> h, wild |-> w], p.arguments, 1, g)
      h1 == free(f.heap, [id |-> p.argsId, str |-> <<>>])
      h2 == free(free(free(free(h1, p.program), p.usage), p.description),
                 p.epilog)
  IN  [heap |-> h2, wild |-> f.wild]

(* ------------------------------- actions ------------------------------ *)

Init ==
  \E add_help \in {0, 1} :
    /\ parser = new_parser(add_help).parser
    /\ heap = new_parser(add_help).heap
    /\ wild = 0
    /\ status = "ready"
    /\ argv = <<>>
    /\ stderr = <<>>
    /\ stdout = <<>>

Declare(r) ==
  /\ status = "ready"
  /\ count < MaxArgs
  /\ parser' = r.parser
  /\ heap' = r.heap
  /\ UNCHANGED <<wild, status, argv, stderr, stdout>>

AddArg ==
  \E sym \in ArgSyms, name \in Names, required \in Requireds, nargs \in NArgs,
     def \in Defaults :
    Declare(add_arg(parser, heap, sym, name, required, nargs, def,
                    ArgHelp))

AddKwarg ==
  \E sym \in KwargSyms, name \in Names, required \in Requireds, def \in Defaults :
    Declare(add_kwarg(parser, heap, sym, name, required, def, ArgHelp))

AddFlag ==
  \E sym \in FlagSyms, name \in Names :
    Declare(add_flag(parser, heap, sym, name, ArgHelp))

ParseArgs ==
  \E tokens \in SeqsUpTo(Tokens, MaxArgc), ub \in StrdupNullOutcomes :
    LET r == parse_args(parser.arguments, heap, tokens, ub)
    IN  /\ status = "ready"
        /\ parser' = [parser EXCEPT !.arguments = r.arguments]
        /\ heap' = r.heap
        /\ status' = r.status
        /\ argv' = tokens
        /\ stderr' = r.stderr
        /\ stdout' = r.stdout
        /\ UNCHANGED wild

FreeParser ==
  \E g \in [1..count -> GarbageCounts] :
    LET f == free_parser(parser, heap, wild, g)
    IN  /\ status = "parsed"
        /\ heap' = f.heap
        /\ wild' = f.wild
        /\ status' = "freed"
        /\ UNCHANGED <<parser, argv, stderr, stdout>>

Next == AddArg \/ AddKwarg \/ AddFlag \/ ParseArgs \/ FreeParser

Spec == Init /\ [][Next]_vars

(* ------------------------ vocabulary of the claims --------------------- *)

args == parser.arguments

\* parse_args has been called and has returned
Parsed == status = "parsed"
\* parse_args has been called: it returned, or ended the process
AfterParse == status \in {"parsed", "exited", "crashed"}

UniqueName(i) ==
  \A j \in 1..Len(args) : j # i => args[j].name.str # args[i].name.str

\* spec i was declared with a short symbol ('0' is stored for none)
HasSymbol(i) == args[i].sym # StoredSym(NUL)

\* a token's text before the first '=' (prefix removed) and its value
TokSplit(tok) ==
  IF IsLong(tok) THEN split(SubSeq(tok, 3, Len(tok)))
  ELSE IF IsShort(tok) THEN split(SubSeq(tok, 2, Len(tok)))
  ELSE split(tok)

HasValue(tok) == TokSplit(tok).value.has
TokValue(tok) == TokSplit(tok).value.str
InCluster(tok, ch) ==
  IsShort(tok) /\ \E k \in 1..Len(TokSplit(tok).arg) : TokSplit(tok).arg[k] = ch
CarriesName(tok, name) == ~IsShort(tok) /\ TokSplit(tok).arg = name

\* the scan hands token tok to spec i: by name in a long or bare token (the
\* first spec of that name, or the first Flag/KeyValue of that name), or by
\* its stored symbol in a cluster (the first Flag/KeyValue storing it)
Matches(i, tok) ==
  \/ /\ CarriesName(tok, args[i].name.str)
     /\ \/ \A j \in 1..(i - 1) : args[j].name.str # args[i].name.str
        \/ /\ args[i].type \in {FLAG, KWARG}
           /\ \A j \in 1..(i - 1) :
                args[j].name.str = args[i].name.str => args[j].type = ARG
  \/ /\ InCluster(tok, args[i].sym)
     /\ args[i].type \in {FLAG, KWARG}
     /\ \A j \in 1..(i - 1) :
          args[j].sym = args[i].sym => args[j].type = ARG

MatchingTokens(i) == {t \in 1..Len(argv) : Matches(i, argv[t])}
Last(S) == CHOOSE t \in S : \A u \in S : u <= t

\* the specs as declared, and as the scan of argv leaves them before the
\* pass over required specs and defaults (for a scan that did not fault)
AsDeclared == [k \in 1..Len(args) |-> [args[k] EXCEPT !.value = NULL]]
Scanned == scan_args(AsDeclared, <<>>, argv, "null").arguments

(* -------------------------------- C1 ---------------------------------- *)

\* what C1 calls a token matching the spec with an attached value; "its
\* symbol" is read as the symbol the spec stores
C1_Supplies(i, tok) ==
  /\ HasValue(tok)
  /\ CarriesName(tok, args[i].name.str) \/ InCluster(tok, args[i].sym)

C1_Supplying(i) == {t \in 1..Len(argv) : C1_Supplies(i, argv[t])}

\* C1 as stated: after parse_args, get_kwarg of a uniquely named KeyValue
\* spec returns the value of the last token that names it (long or bare) or
\* holds its symbol in a cluster and carries "=v", whenever there is one.
C1_LastSuppliedValueWins ==
  Parsed =>
    \A i \in 1..Len(args) :
      (args[i].type = KWARG /\ UniqueName(i) /\ C1_Supplying(i) # {}) =>
        /\ get_kwarg(args, args[i].name.str) # NULL
        /\ get_kwarg(args, args[i].name.str).str
             = TokValue(argv[Last(C1_Supplying(i))])

\* C1, amended: after parse_args has returned, get_kwarg of a uniquely named
\* KeyValue spec returns the value of the last token the scan matches to the
\* spec, when that token carries "=v" (a later matching token without "="
\* takes the value away again, and a symbol stored by an earlier Flag or
\* KeyValue spec never reaches this one).
C1_LastMatchWins ==
  Parsed =>
    \A i \in 1..Len(args) :
      (/\ args[i].type = KWARG
       /\ UniqueName(i)
       /\ MatchingTokens(i) # {}
       /\ HasValue(argv[Last(MatchingTokens(i))])) =>
        /\ get_kwarg(args, args[i].name.str) # NULL
        /\ get_kwarg(args, args[i].name.str).str
             = TokValue(argv[Last(MatchingTokens(i))])

\* a KeyValue spec with a default, matched by two tokens with different
\* values, the first in long form: get_kwarg returns the second value
C1_Witness ==
  /\ Parsed
  /\ Len(argv) = 2
  /\ \E i \in 1..Len(args) :
       /\ args[i].type = KWARG
       /\ UniqueName(i)
       /\ args[i].def_val # NULL
       /\ MatchingTokens(i) = {1, 2}
       /\ IsLong(argv[1]) /\ HasValue(argv[1]) /\ HasValue(argv[2])
       /\ TokValue(argv[1]) # TokValue(argv[2])
       /\ get_kwarg(args, args[i].name.str).str = TokValue(argv[2])

(* -------------------------------- C2 ---------------------------------- *)

\* the required specs the scan left without a value
C2_Missing ==
  {i \in 1..Len(args) : args[i].required # 0 /\ Scanned[i].value = NULL}

C2_First(S) == CHOOSE i \in S : \A j \in S : i <= j

\* C2: once the scan of argv is over, parse_args ends the process with the
\* one line "Missing required argument: <name>" for the first required spec
\* in declaration order that the scan left without a value, whether or not
\* it has a default; with no such spec it returns and writes no diagnostic.
C2_MissingRequiredIsFatal ==
  status \in {"parsed", "exited"} =>
    IF C2_Missing # {}
      THEN /\ status = "exited"
           /\ stderr = <<MissingMsg \o args[C2_First(C2_Missing)].name.str>>
      ELSE /\ status = "parsed"
           /\ stderr = <<>>

\* two required specs are missing, the first has a default: the process
\* ends naming the first
C2_Witness ==
  /\ status = "exited"
  /\ C2_Missing = {1, 2}
  /\ args[1].def_val # NULL
  /\ args[1].name.str # args[2].name.str
  /\ stderr = <<MissingMsg \o args[1].name.str>>

(* -------------------------------- C3 ---------------------------------- *)

\* the getter of a spec's own kind
C3_Get(i) ==
  IF args[i].type = ARG THEN get_arg(args, args[i].name.str)
  ELSE get_kwarg(args, args[i].name.str)

C3_Defaulted(i) ==
  /\ args[i].type \in {KWARG, ARG}
  /\ args[i].required = 0
  /\ args[i].def_val # NULL
  /\ MatchingTokens(i) = {}

\* C3 as stated: after parse_args, the getter of every non-required KeyValue
\* or Positional spec with a default that no token matched returns the
\* declared default.
C3_UnmatchedGetsDefault ==
  Parsed =>
    \A i \in 1..Len(args) :
      C3_Defaulted(i) =>
        /\ C3_Get(i) # NULL
        /\ C3_Get(i).str = args[i].def_val.str

\* C3, amended: the same for every such spec whose name no other spec bears
\* (a getter answers for the first spec of the name): its getter returns the
\* declared default, which the scan itself never assigns.
C3_UnmatchedUniqueGetsDefault ==
  Parsed =>
    \A i \in 1..Len(args) :
      (C3_Defaulted(i) /\ UniqueName(i)) =>
        /\ C3_Get(i) # NULL
        /\ C3_Get(i).str = args[i].def_val.str
        /\ Scanned[i].value = NULL

\* a KeyValue and a Positional spec with defaults and names of their own, a
\* token that carries a value and matches neither: both getters return the
\* default
C3_Witness ==
  /\ Parsed
  /\ \E t \in 1..Len(argv) : HasValue(argv[t])
  /\ \E i, j \in 1..Len(args) :
       /\ C3_Defaulted(i) /\ UniqueName(i) /\ args[i].type = KWARG
       /\ C3_Defaulted(j) /\ UniqueName(j) /\ args[j].type = ARG
       /\ get_kwarg(args, args[i].name.str).str = args[i].def_val.str
       /\ get_arg(args, args[j].name.str).str = args[j].def_val.str

(* -------------------------------- C4 ---------------------------------- *)

\* a token C4 counts as mentioning flag i: "--name", "--name=value", or a
\* cluster holding its symbol
C4_Mentions(i, tok) ==
  \/ IsLong(tok) /\ TokSplit(tok).arg = args[i].name.str
  \/ HasSymbol(i) /\ InCluster(tok, args[i].sym)

\* C4: when a token mentions a uniquely named Flag, parse_args completes and
\* get_flag of its name is true afterwards.
C4_MentionedFlagIsTrue ==
  AfterParse =>
    \A i \in 1..Len(args) :
      (/\ args[i].type = FLAG
       /\ UniqueName(i)
       /\ \E t \in 1..Len(argv) : C4_Mentions(i, argv[t])) =>
        /\ status = "parsed"
        /\ get_flag(args, args[i].name.str) = 1

(* -------------------------------- C5 ---------------------------------- *)

C5_Mentions(i, tok) ==
  \/ CarriesName(tok, args[i].name.str)
  \/ HasSymbol(i) /\ InCluster(tok, args[i].sym)

\* C5: after parse_args, get_flag is false for every uniquely named Flag
\* that no token mentions; a flag declared without a short symbol is
\* mentioned by no cluster.
C5_UnmentionedFlagIsFalse ==
  Parsed =>
    \A i \in 1..Len(args) :
      (/\ args[i].type = FLAG
       /\ UniqueName(i)
       /\ \A t \in 1..Len(argv) : ~C5_Mentions(i, argv[t])) =>
        get_flag(args, args[i].name.str) = 0

(* -------------------------------- C6 ---------------------------------- *)

\* C6: parsing a single short-form token matches every character of its
\* cluster: the parse does not stop before the end of the cluster, every
\* KeyValue spec a character matches holds the trailing value and every Flag
\* spec a character matches holds "true".
C6_ClusterSetsEverySpec ==
  (AfterParse /\ Len(argv) = 1 /\ IsShort(argv[1])) =>
    /\ status # "crashed"
    /\ \A i \in 1..Len(args) :
         Matches(i, argv[1]) =>
           /\ args[i].type = FLAG => args[i].value.str = TrueStr
           /\ (args[i].type = KWARG /\ HasValue(argv[1])) =>
                /\ args[i].value # NULL
                /\ args[i].value.str = TokValue(argv[1])

(* -------------------------------- C7 ---------------------------------- *)

C7_Names == Names \cup {HelpName, <<"0">>}

C7_FirstNamed(name) ==
  FirstIdx({n \in 1..Len(args) : args[n].name.str = name})

\* C7: a getter asked for a name whose spec is of another kind, or for a
\* name never declared, returns not-found: NULL from get_arg and get_kwarg,
\* 0 from get_flag, before and after a parse.
C7_KindMismatchIsNotFound ==
  status \in {"ready", "parsed"} =>
    \A name \in C7_Names :
      LET i == C7_FirstNamed(name)
      IN  /\ (i = 0 \/ args[i].type # ARG) => get_arg(args, name) = NULL
          /\ (i = 0 \/ args[i].type # KWARG) => get_kwarg(args, name) = NULL
          /\ (i = 0 \/ args[i].type # FLAG) => get_flag(args, name) = 0

\* a KeyValue and then a Flag declared under one name, both set by a token:
\* get_flag of the name is false, get_kwarg returns the value
C7_Witness ==
  /\ Parsed
  /\ Len(args) = 2
  /\ args[1].type = KWARG /\ args[2].type = FLAG
  /\ args[1].name.str = args[2].name.str
  /\ args[1].value # NULL /\ args[2].value # NULL
  /\ get_flag(args, args[1].name.str) = 0
  /\ get_kwarg(args, args[1].name.str) = args[1].value
  /\ get_arg(args, args[1].name.str) = NULL

(* -------------------------------- C8 ---------------------------------- *)

C8_DeclaredName(name) == \E i \in 1..Len(args) : args[i].name.str = name
C8_DeclaredSymbol(ch) ==
  \E i \in 1..Len(args) : HasSymbol(i) /\ args[i].sym = ch

\* a token that matches no declared spec
C8_Unmatched(tok) ==
  IF IsShort(tok)
    THEN \A k \in 1..Len(TokSplit(tok).arg) :
           ~C8_DeclaredSymbol(TokSplit(tok).arg[k])
    ELSE ~C8_DeclaredName(TokSplit(tok).arg)

C8_Remove(seq, t) == SubSeq(seq, 1, t - 1) \o SubSeq(seq, t + 1, Len(seq))

\* what a parse leaves: how it ended and each spec's resolved string
C8_Outcome(tokens, ub) ==
  LET r == parse_args(AsDeclared, <<>>, tokens, ub)
  IN  [status |-> r.status,
       values |-> [k \in 1..Len(args) |->
                     [null |-> r.arguments[k].value = NULL,
                      str |-> r.arguments[k].value.str]]]

\* C8: a token that matches no declared spec changes nothing: the parse of
\* argv ends the same way and leaves the same values as the parse of argv
\* without that token.
C8_UnmatchedTokenIsIgnored ==
  AfterParse =>
    \A t \in 1..Len(argv), ub \in StrdupNullOutcomes :
      C8_Unmatched(argv[t]) =>
        C8_Outcome(argv, ub) = C8_Outcome(C8_Remove(argv, t), ub)

(* -------------------------------- C9 ---------------------------------- *)

\* C9: after free_parser every allocation made since new_parser has been
\* released exactly once, and nothing else has been passed to free.
C9_EverythingFreedOnce ==
  status = "freed" =>
    /\ wild = 0
    /\ \A id \in 1..Len(heap) : heap[id] = 1

(* -------------------------------- C10 --------------------------------- *)

\* C10: a single token "--name" without "=" that names a uniquely named
\* KeyValue spec does not make the parse fail, and leaves the parser in a
\* state other than the one a parse of no token leaves.
C10_BareLongIsDistinct ==
  (/\ AfterParse
   /\ Len(argv) = 1
   /\ IsLong(argv[1])
   /\ ~HasValue(argv[1])
   /\ \E i \in 1..Len(args) :
        /\ args[i].type = KWARG
        /\ UniqueName(i)
        /\ TokSplit(argv[1]).arg = args[i].name.str) =>
    /\ status # "crashed"
    /\ \A ub \in StrdupNullOutcomes :
         C8_Outcome(argv, ub) # C8_Outcome(<<>>, ub)

(* -------------------------------- C11 --------------------------------- *)

IsBare(tok) == ~IsLong(tok) /\ ~IsShort(tok)

\* spec i is a Positional with a name of its own, and the last token of argv
\* that carries its name is a bare token "name=v"
C11_Supplied(i) ==
  /\ args[i].type = ARG
  /\ UniqueName(i)
  /\ MatchingTokens(i) # {}
  /\ IsBare(argv[Last(MatchingTokens(i))])
  /\ HasValue(argv[Last(MatchingTokens(i))])

C11_Value(i) == TokValue(argv[Last(MatchingTokens(i))])

\* C11: a bare token "n=v" that names a uniquely named Positional spec, and
\* that no later token naming the spec overwrites, sets the spec's value to
\* v: the scan leaves a copy of v in the spec, after a parse_args that
\* returned get_arg(n) is that copy and not the default, and a parse_args
\* that ended the process did not do so for this spec, required or not.
C11_BareTokenSetsPositional ==
  \A i \in 1..Len(args) :
    C11_Supplied(i) =>
      /\ status \in {"parsed", "exited"} =>
            /\ Scanned[i].value # NULL
            /\ Scanned[i].value.str = C11_Value(i)
      /\ Parsed =>
            /\ get_arg(args, args[i].name.str) # NULL
            /\ get_arg(args, args[i].name.str) # args[i].def_val
            /\ get_arg(args, args[i].name.str).str = C11_Value(i)
      /\ status = "exited" =>
            stderr # <<MissingMsg \o args[i].name.str>>

\* a required Positional with a default, first given "y" by a long token and
\* then "x" by a bare one: the parse returns and get_arg is "x"
C11_Witness ==
  /\ Parsed
  /\ Len(argv) = 2
  /\ IsLong(argv[1]) /\ HasValue(argv[1])
  /\ \E i \in 1..Len(args) :
       /\ C11_Supplied(i)
       /\ MatchingTokens(i) = {1, 2}
       /\ args[i].required # 0
       /\ args[i].def_val # NULL
       /\ TokValue(argv[1]) # C11_Value(i)
       /\ get_arg(args, args[i].name.str).str = C11_Value(i)

====
